---- MODULE Spec2Model ----
(***************************************************************************)
(* Model of DisjointHashSet<T> (src/src/disjoint_hash_set.rs): a value ->  *)
(* Id table (map) over a forest of Nodes (data) with path halving, union   *)
(* and split.  Ids are 0-based indices into data, as in the source.        *)
(***************************************************************************)
EXTENDS Integers, Sequences, FiniteSets, TLC

\* The values handed to the structure (the type parameter T).
Values == {"x", "y", "z"}

\* Cap on a node's size field (split leaves stale sizes that union keeps adding up).
MaxSize == 4
\* Longest sequence handed to insert_set.
MaxSetLen == 3
\* Longest sequence handed to with_values.
MaxWithLen == 3

VARIABLES map, data, status, last, prev

vars == <<map, data, status, last, prev>>

----------------------------------------------------------------------------
\* Vec<Node> helpers: data is a function on 0 .. len-1.

EmptyMap == [v \in {} |-> 0]

EmptyData == [i \in {} |-> 0]

\* Node::new(parent)
NewNode(parent) == [size |-> 1, parent |-> parent]

\* self.data.len() / size()
Size(d) == Cardinality(DOMAIN d)

\* Vec::push
Push(d, node) == [i \in 0 .. Size(d) |-> IF i < Size(d) THEN d[i] ELSE node]

\* HashMap::insert(k, v)
MapPut(m, v, id) == [w \in (DOMAIN m) \cup {v} |-> IF w = v THEN id ELSE m[w]]

\* Option<Id>
None == <<>>

Some(id) == <<id>>

\* self.data[id.0] is in bounds
InBounds(d, id) == id \in DOMAIN d

----------------------------------------------------------------------------
\* contains
Contains(m, v) == v \in DOMAIN m

\* insert_inner with map.insert for entry().or_insert_with: a present value is renumbered
InsertInnerAlways(m, d, v) ==
    [map |-> MapPut(m, v, Size(d)), data |-> Push(d, NewNode(Size(d))), id |-> Size(d)]

\* insert_inner: the entry's id, pushing a fresh singleton root when vacant
InsertInner(m, d, v) ==
    IF v \in DOMAIN m
    THEN [map |-> m, data |-> d, id |-> m[v]]
    ELSE [map |-> MapPut(m, v, Size(d)), data |-> Push(d, NewNode(Size(d))), id |-> Size(d)]

\* compress_path with `if` for `while`: one halving step, then the parent is returned
CompressLoopOnce(d, id, fuel) ==
    LET parent == d[id].parent IN
    IF parent = id THEN [data |-> d, id |-> id, status |-> "ok"]
    ELSE [data |-> [d EXCEPT ![id].parent = d[parent].parent], id |-> parent, status |-> "ok"]

\* compress_path that follows the parent pointers without rewriting them
RECURSIVE CompressLoopNoHalving(_, _, _)
CompressLoopNoHalving(d, id, fuel) ==
    LET parent == d[id].parent IN
    IF parent = id THEN [data |-> d, id |-> id, status |-> "ok"]
    ELSE IF ~InBounds(d, parent) THEN [data |-> d, id |-> id, status |-> "panic"]
    ELSE IF fuel = 0 THEN [data |-> d, id |-> id, status |-> "hang"]
    ELSE CompressLoopNoHalving(d, parent, fuel - 1)

\* the while loop of compress_path (path halving); fuel only detects a loop
\* that would not end
RECURSIVE CompressLoop(_, _, _)
CompressLoop(d, id, fuel) ==
    LET parent == d[id].parent IN
    IF parent = id THEN [data |-> d, id |-> id, status |-> "ok"]
    ELSE IF ~InBounds(d, parent) THEN [data |-> d, id |-> id, status |-> "panic"]
    ELSE IF fuel = 0 THEN [data |-> d, id |-> id, status |-> "hang"]
    ELSE CompressLoop([d EXCEPT ![id].parent = d[parent].parent], parent, fuel - 1)

\* compress_path
CompressPath(d, id) ==
    IF ~InBounds(d, id) THEN [data |-> d, id |-> id, status |-> "panic"]
    ELSE CompressLoop(d, id, 2 * Size(d) + 2)

\* find that inserts a missing value the way find_or_insert does
FindInserting(m, d, v) ==
    LET i == InsertInner(m, d, v)
        c == CompressPath(i.data, i.id) IN
    [map |-> i.map, data |-> c.data, status |-> c.status, ret |-> Some(c.id)]

\* find
Find(m, d, v) ==
    IF v \notin DOMAIN m
    THEN [map |-> m, data |-> d, status |-> "ok", ret |-> None]
    ELSE LET c == CompressPath(d, m[v]) IN
         [map |-> m, data |-> c.data, status |-> c.status, ret |-> Some(c.id)]

\* find_or_insert
FindOrInsert(m, d, v) ==
    LET i == InsertInner(m, d, v)
        c == CompressPath(i.data, i.id) IN
    [map |-> i.map, data |-> c.data, status |-> c.status, ret |-> c.id]

\* connected: find(value) == find(other), left operand first
Connected(m, d, value, other) ==
    LET f1 == Find(m, d, value) IN
    IF f1.status # "ok" THEN [map |-> m, data |-> f1.data, status |-> f1.status, ret |-> FALSE]
    ELSE LET f2 == Find(m, f1.data, other) IN
         [map |-> m, data |-> f2.data, status |-> f2.status,
          ret |-> (f2.status = "ok" /\ f1.ret = f2.ret)]

\* insert: insert_inner(value) != Id(size() - 1), size() read after insert_inner
Insert(m, d, v) ==
    LET i == InsertInner(m, d, v) IN
    IF Size(i.data) = 0
    THEN [map |-> i.map, data |-> i.data, status |-> "panic", ret |-> FALSE]
    ELSE [map |-> i.map, data |-> i.data, status |-> "ok", ret |-> (i.id # Size(i.data) - 1)]

\* union_inner whose else branch writes value.parent where other.parent is meant
UnionInnerSelfLink(d, value_id, other_id) ==
    IF ~InBounds(d, value_id) \/ ~InBounds(d, other_id) THEN [data |-> d, status |-> "panic"]
    ELSE LET value == d[value_id]
             other == d[other_id] IN
         IF value = other THEN [data |-> d, status |-> "ok"]
         ELSE IF value.size < other.size
         THEN [data |-> [d EXCEPT ![other_id].parent = value.parent,
                                  ![value_id].size = d[value_id].size + other.size],
               status |-> "ok"]
         ELSE [data |-> [d EXCEPT ![value_id].parent = value.parent,
                                  ![other_id].size = d[other_id].size + value.size],
               status |-> "ok"]

\* union_inner
UnionInner(d, value_id, other_id) ==
    IF ~InBounds(d, value_id) \/ ~InBounds(d, other_id) THEN [data |-> d, status |-> "panic"]
    ELSE LET value == d[value_id]
             other == d[other_id] IN
         IF value = other THEN [data |-> d, status |-> "ok"]
         ELSE IF value.size < other.size
         THEN [data |-> [d EXCEPT ![other_id].parent = value.parent,
                                  ![value_id].size = d[value_id].size + other.size],
               status |-> "ok"]
         ELSE [data |-> [d EXCEPT ![value_id].parent = other.parent,
                                  ![other_id].size = d[other_id].size + value.size],
               status |-> "ok"]

\* union
Union(m, d, value, other) ==
    LET f1 == FindOrInsert(m, d, value) IN
    IF f1.status # "ok" THEN [map |-> f1.map, data |-> f1.data, status |-> f1.status]
    ELSE LET f2 == FindOrInsert(f1.map, f1.data, other) IN
         IF f2.status # "ok" THEN [map |-> f2.map, data |-> f2.data, status |-> f2.status]
         ELSE LET u == UnionInner(f2.data, f1.ret, f2.ret) IN
              [map |-> f2.map, data |-> u.data, status |-> u.status]

\* union_sets
UnionSets(m, d, value, other) ==
    LET c1 == CompressPath(d, value) IN
    IF c1.status # "ok" THEN [map |-> m, data |-> c1.data, status |-> c1.status]
    ELSE LET c2 == CompressPath(c1.data, other) IN
         IF c2.status # "ok" THEN [map |-> m, data |-> c2.data, status |-> c2.status]
         ELSE LET u == UnionInner(c2.data, c1.id, c2.id) IN
              [map |-> m, data |-> u.data, status |-> u.status]

\* the fold of insert_set without the re-resolution k = compress_path(k)
RECURSIVE InsertSetFoldStaleK(_, _, _, _)
InsertSetFoldStaleK(m, d, k, rest) ==
    IF rest = <<>> THEN [map |-> m, data |-> d, status |-> "ok"]
    ELSE LET f == FindOrInsert(m, d, Head(rest)) IN
         IF f.status # "ok" THEN [map |-> f.map, data |-> f.data, status |-> f.status]
         ELSE LET u == UnionInner(f.data, k, f.ret) IN
              IF u.status # "ok" THEN [map |-> f.map, data |-> u.data, status |-> u.status]
              ELSE InsertSetFoldStaleK(f.map, u.data, k, Tail(rest))

\* insert_set: fold of find_or_insert / compress_path(k) / union_inner(k, v)
RECURSIVE InsertSetFold(_, _, _, _)
InsertSetFold(m, d, k, rest) ==
    IF rest = <<>> THEN [map |-> m, data |-> d, status |-> "ok"]
    ELSE LET f == FindOrInsert(m, d, Head(rest)) IN
         IF f.status # "ok" THEN [map |-> f.map, data |-> f.data, status |-> f.status]
         ELSE LET c == CompressPath(f.data, k) IN
              IF c.status # "ok" THEN [map |-> f.map, data |-> c.data, status |-> c.status]
              ELSE LET u == UnionInner(c.data, c.id, f.ret) IN
                   IF u.status # "ok" THEN [map |-> f.map, data |-> u.data, status |-> u.status]
                   ELSE InsertSetFold(f.map, u.data, c.id, Tail(rest))

\* insert_set
InsertSet(m, d, set) ==
    IF set = <<>> THEN [map |-> m, data |-> d, status |-> "ok"]
    ELSE LET f == FindOrInsert(m, d, Head(set)) IN
         IF f.status # "ok" THEN [map |-> f.map, data |-> f.data, status |-> f.status]
         ELSE InsertSetFold(f.map, f.data, f.ret, Tail(set))

\* position() over the nodes other than id itself
PositionOthers(d, id) ==
    LET hits == {j \in DOMAIN d : d[j].parent = id /\ j # id} IN
    IF hits = {} THEN -1 ELSE CHOOSE j \in hits : \A k \in hits : j <= k

\* data_iter.position(|v| v.parent == id): first index whose parent is id
Position(d, id) ==
    LET hits == {j \in DOMAIN d : d[j].parent = id} IN
    IF hits = {} THEN -1 ELSE CHOOSE j \in hits : \A k \in hits : j <= k

\* split_inner
SplitInner(m, d, v) ==
    LET i == InsertInner(m, d, v)
        id == i.id IN
    IF ~InBounds(i.data, id) THEN [map |-> i.map, data |-> i.data, status |-> "panic", id |-> id]
    ELSE LET value == i.data[id] IN
         IF value.size = 1 THEN [map |-> i.map, data |-> i.data, status |-> "ok", id |-> id]
         ELSE LET isRoot == (id = value.parent)
                  pos == Position(i.data, id) IN
              IF isRoot /\ pos = -1
              THEN [map |-> i.map, data |-> i.data, status |-> "panic", id |-> id]
              ELSE LET new_parent == IF isRoot THEN pos ELSE value.parent
                       from == IF isRoot THEN pos + 1 ELSE 0
                       relinked == [j \in DOMAIN i.data |->
                                      IF j >= from /\ i.data[j].parent = id
                                      THEN [i.data[j] EXCEPT !.parent = new_parent]
                                      ELSE i.data[j]] IN
                   [map |-> i.map, data |-> [relinked EXCEPT ![id].size = 1],
                    status |-> "ok", id |-> id]

\* split
Split(m, d, v) ==
    LET s == SplitInner(m, d, v) IN
    IF s.status # "ok" THEN [map |-> s.map, data |-> s.data, status |-> s.status]
    ELSE [map |-> s.map, data |-> [s.data EXCEPT ![s.id].parent = s.id], status |-> "ok"]

\* split_into
SplitInto(m, d, value, into) ==
    LET s == SplitInner(m, d, value) IN
    IF s.status # "ok" THEN [map |-> s.map, data |-> s.data, status |-> s.status]
    ELSE LET f == FindOrInsert(s.map, s.data, into) IN
         IF f.status # "ok" THEN [map |-> f.map, data |-> f.data, status |-> f.status]
         ELSE LET u == UnionInner(f.data, s.id, f.ret) IN
              [map |-> f.map, data |-> u.data, status |-> u.status]

\* split_into_set
SplitIntoSet(m, d, value, into) ==
    LET s == SplitInner(m, d, value) IN
    IF s.status # "ok" THEN [map |-> s.map, data |-> s.data, status |-> s.status]
    ELSE LET c == CompressPath(s.data, into) IN
         IF c.status # "ok" THEN [map |-> s.map, data |-> c.data, status |-> c.status]
         ELSE LET u == UnionInner(c.data, s.id, c.id) IN
              [map |-> s.map, data |-> u.data, status |-> u.status]

\* with_values: enumerate().collect() keeps the last index of a repeated value;
\* data has one node per map entry
RECURSIVE WithValuesMap(_, _)
WithValuesMap(set, n) ==
    IF n = 0 THEN EmptyMap
    ELSE MapPut(WithValuesMap(set, n - 1), set[n], n - 1)

WithValues(set) ==
    LET m == WithValuesMap(set, Len(set)) IN
    [map |-> m, data |-> [i \in 0 .. Cardinality(DOMAIN m) - 1 |-> NewNode(i)]]

----------------------------------------------------------------------------
\* The calls a client can make, one action per public method.  A call may be
\* observed: last then records the call and what it returned, prev the
\* structure before the call, and the run ends there.  An unobserved call
\* leaves last and prev blank and the run goes on.

SizesOk(d) == \A i \in DOMAIN d : d[i].size <= MaxSize

\* last when no call is observed; every field keeps one type: a, b are value
\* arguments, ia, ib identifier arguments, set a sequence argument, ret a
\* boolean result and rid an Option<Id> result
NoCall == [op |-> "-", a |-> "", b |-> "", ia |-> -1, ib |-> -1, set |-> <<>>,
           ret |-> FALSE, rid |-> None]

NoPrev == [map |-> EmptyMap, data |-> EmptyData]

Call(r, call) ==
    /\ status = "ok"
    /\ last.op = "-"
    /\ SizesOk(r.data)
    /\ map' = r.map
    /\ data' = r.data
    /\ status' = r.status
    /\ \/ /\ last' = call
          /\ prev' = [map |-> map, data |-> data]
       \/ /\ last' = NoCall
          /\ prev' = NoPrev

\* identifiers a caller may hold, issued or not
IdArgs == 0 .. Size(data)

SetArgs == UNION {[1 .. n -> Values] : n \in 0 .. MaxSetLen}

WithArgs == UNION {[1 .. n -> Values] : n \in 0 .. MaxWithLen}

DoContains == \E v \in Values :
    Call([map |-> map, data |-> data, status |-> "ok"],
         [NoCall EXCEPT !.op = "contains", !.a = v, !.ret = Contains(map, v)])

DoInsert == \E v \in Values :
    LET r == Insert(map, data, v) IN
    Call(r, [NoCall EXCEPT !.op = "insert", !.a = v, !.ret = r.ret])

DoInsertSet == \E set \in SetArgs :
    Call(InsertSet(map, data, set), [NoCall EXCEPT !.op = "insert_set", !.set = set])

DoFind == \E v \in Values :
    LET r == Find(map, data, v) IN
    Call(r, [NoCall EXCEPT !.op = "find", !.a = v, !.rid = r.ret])

DoFindOrInsert == \E v \in Values :
    LET r == FindOrInsert(map, data, v) IN
    Call(r, [NoCall EXCEPT !.op = "find_or_insert", !.a = v, !.rid = Some(r.ret)])

DoConnected == \E v \in Values, o \in Values :
    LET r == Connected(map, data, v, o) IN
    Call(r, [NoCall EXCEPT !.op = "connected", !.a = v, !.b = o, !.ret = r.ret])

DoUnion == \E v \in Values, o \in Values :
    Call(Union(map, data, v, o), [NoCall EXCEPT !.op = "union", !.a = v, !.b = o])

DoUnionSets == \E v \in IdArgs, o \in IdArgs :
    Call(UnionSets(map, data, v, o), [NoCall EXCEPT !.op = "union_sets", !.ia = v, !.ib = o])

DoSplit == \E v \in Values :
    Call(Split(map, data, v), [NoCall EXCEPT !.op = "split", !.a = v])

DoSplitInto == \E v \in Values, o \in Values :
    Call(SplitInto(map, data, v, o), [NoCall EXCEPT !.op = "split_into", !.a = v, !.b = o])

DoSplitIntoSet == \E v \in Values, o \in IdArgs :
    Call(SplitIntoSet(map, data, v, o), [NoCall EXCEPT !.op = "split_into_set", !.a = v, !.ib = o])

\* DisjointHashSet::new()
Init ==
    /\ map = EmptyMap
    /\ data = EmptyData
    /\ status = "ok"
    /\ last = NoCall
    /\ prev = NoPrev

Next ==
    \/ DoContains
    \/ DoInsert
    \/ DoInsertSet
    \/ DoFind
    \/ DoFindOrInsert
    \/ DoConnected
    \/ DoUnion
    \/ DoUnionSets
    \/ DoSplit
    \/ DoSplitInto
    \/ DoSplitIntoSet

Spec == Init /\ [][Next]_vars

\* Clients that only insert, union and query.
NextIU ==
    \/ DoInsert
    \/ DoUnion
    \/ DoConnected
    \/ DoFind

SpecIU == Init /\ [][NextIU]_vars

\* Structures built by with_values and then used.
InitWV == \E set \in WithArgs :
    LET w == WithValues(set) IN
    /\ map = w.map
    /\ data = w.data
    /\ status = "ok"
    /\ prev = NoPrev
    /\ \/ last = [NoCall EXCEPT !.op = "with_values", !.set = set]
       \/ last = NoCall

NextWV ==
    \/ DoFind
    \/ DoConnected
    \/ DoUnion
    \/ DoSplit

SpecWV == InitWV /\ [][NextWV]_vars

----------------------------------------------------------------------------
\* What a client can observe.

\* a and b are present and connected(a, b) answers true on the structure (m, d)
SameClass(m, d, a, b) ==
    /\ a \in DOMAIN m
    /\ b \in DOMAIN m
    /\ Connected(m, d, a, b).ret

\* the values connected to a on (m, d), a included
ClassOf(m, d, a) == {b \in Values : SameClass(m, d, a, b)}

\* (m1, d1) and (m2, d2) partition the values into the same classes
SamePartition(m1, d1, m2, d2) ==
    \A p \in Values, q \in Values : SameClass(m1, d1, p, q) = SameClass(m2, d2, p, q)

\* the observed call was op and it returned normally
Returned(op) == last.op = op /\ status = "ok"

----------------------------------------------------------------------------
\* C1: after split(a), connected(a, b) is false for every other value b that
\* was in a's class before the call, whether a was the root of its class or not.
SplitSeparates ==
    Returned("split") =>
        \A b \in Values \ {last.a} :
            SameClass(prev.map, prev.data, last.a, b) => ~Connected(map, data, last.a, b).ret

\* C2: split(a) leaves connected(b, c) unchanged for every pair of values b, c
\* both different from a.
SplitKeepsOthers ==
    Returned("split") =>
        \A b \in Values \ {last.a}, c \in Values \ {last.a} :
            SameClass(map, data, b, c) = SameClass(prev.map, prev.data, b, c)

\* C3: split_into(a, c) yields the partition of split(a) followed by
\* union(a, c); a ends up connected to c and, when c was not in a's former
\* class, a is connected to no other former classmate and the former class is
\* not merged with c's class.
SplitIntoIsSplitThenUnion ==
    Returned("split_into") =>
        LET a == last.a
            c == last.b
            s == Split(prev.map, prev.data, a)
            u == Union(s.map, s.data, a, c) IN
        /\ SamePartition(map, data, u.map, u.data)
        /\ SameClass(map, data, a, c)
        /\ ~SameClass(prev.map, prev.data, a, c) =>
               \A b \in Values \ {a} :
                   SameClass(prev.map, prev.data, a, b) =>
                       /\ ~SameClass(map, data, a, b)
                       /\ ~SameClass(map, data, b, c)

\* the structure before union(a, b) with a and b inserted as singletons when absent
WithBoth(m, d, a, b) ==
    LET i1 == InsertInner(m, d, a) IN InsertInner(i1.map, i1.data, b)

\* C4: after union(a, b), connected(a, b) is true, the partition is the
\* previous one with the classes of a and b merged and nothing else changed,
\* and a second union(a, b) changes no connectivity.
UnionMergesExactly ==
    Returned("union") =>
        LET a == last.a
            b == last.b
            pre == WithBoth(prev.map, prev.data, a, b)
            merged == ClassOf(pre.map, pre.data, a) \cup ClassOf(pre.map, pre.data, b)
            again == Union(map, data, a, b) IN
        /\ Connected(map, data, a, b).ret
        /\ \A p \in Values, q \in Values :
               SameClass(map, data, p, q) =
                   (SameClass(pre.map, pre.data, p, q) \/ (p \in merged /\ q \in merged))
        /\ again.status = "ok"
        /\ SamePartition(again.map, again.data, map, data)

\* union(a, b) has merged a class of at least two values with a value that was absent
UnionMergesExactlyWitness ==
    /\ Returned("union")
    /\ last.b \notin DOMAIN prev.map
    /\ Cardinality(ClassOf(prev.map, prev.data, last.a)) >= 2
    /\ Cardinality(ClassOf(map, data, last.a)) >= 3

\* C5: after any sequence of insert and union calls, connected is reflexive,
\* symmetric and transitive over the inserted values, the calls being made one
\* after the other on the structure each of them leaves behind.
ConnectedIsEquivalence ==
    status = "ok" =>
        \A a \in DOMAIN map, b \in DOMAIN map, c \in DOMAIN map :
            LET ab == Connected(map, data, a, b)
                ba == Connected(ab.map, ab.data, b, a)
                bc == Connected(ab.map, ab.data, b, c)
                ac == Connected(bc.map, bc.data, a, c) IN
            /\ Connected(map, data, a, a).ret
            /\ ab.ret = ba.ret
            /\ (ab.ret /\ bc.ret) => ac.ret

\* some node's parent is not a root
HasDeepNode(d) == \E i \in DOMAIN d : d[d[i].parent].parent # d[i].parent

\* three inserted values in one class whose tree has a path of two links, so
\* that connected halves a path while it answers
ConnectedIsEquivalenceWitness ==
    /\ status = "ok"
    /\ DOMAIN map = Values
    /\ HasDeepNode(data)
    /\ \A a \in Values, b \in Values : Connected(map, data, a, b).ret

\* C6: insert(value) returns true exactly when the value was not present
\* before the call.
InsertReportsNew ==
    Returned("insert") => (last.ret = (last.a \notin DOMAIN prev.map))

\* C7: connected(a, b) returns false whenever a or b has never been inserted,
\* and inserts neither.
ConnectedFalseWhenAbsent ==
    (Returned("connected") /\ (last.a \notin DOMAIN prev.map \/ last.b \notin DOMAIN prev.map)) =>
        (last.ret = FALSE /\ map = prev.map)

\* the distinct values of a sequence
Range(set) == {set[n] : n \in DOMAIN set}

\* C8: with_values(values) yields a structure where every distinct input value
\* is present with an identifier below size(), size() is the number of
\* distinct values, every value is its own singleton class, and find,
\* connected, union and split on those values succeed afterwards.
WithValuesSound ==
    /\ last.op = "with_values" =>
           /\ DOMAIN map = Range(last.set)
           /\ Size(data) = Cardinality(Range(last.set))
           /\ \A v \in DOMAIN map : map[v] < Size(data)
           /\ \A v \in DOMAIN map, w \in DOMAIN map : v # w => map[v] # map[w]
           /\ \A i \in DOMAIN data : data[i] = NewNode(i)
    /\ status # "panic"

\* C9: once split(b) has returned, split_into(b, a) for a former classmate a of
\* b yields exactly the partition that held before the split.
SplitThenSplitIntoRestores ==
    Returned("split") =>
        \A a \in Values \ {last.a} :
            SameClass(prev.map, prev.data, last.a, a) =>
                LET r == SplitInto(map, data, last.a, a) IN
                /\ r.status = "ok"
                /\ SamePartition(r.map, r.data, prev.map, prev.data)

\* C10: split(a) on a present value a that is alone in its class leaves the
\* value table, every parent pointer and every size field unchanged, and a
\* second split(a) changes nothing either.
SplitSingletonNoop ==
    (/\ Returned("split")
     /\ last.a \in DOMAIN prev.map
     /\ ClassOf(prev.map, prev.data, last.a) = {last.a}) =>
        /\ map = prev.map
        /\ data = prev.data
        /\ LET r == Split(map, data, last.a) IN r.map = map /\ r.data = data

\* the structure with every value of the sequence inserted as a singleton when absent
RECURSIVE WithAll(_, _, _)
WithAll(m, d, set) ==
    IF set = <<>> THEN [map |-> m, data |-> d]
    ELSE LET i == InsertInner(m, d, Head(set)) IN WithAll(i.map, i.data, Tail(set))

\* C11: after insert_set(vs) every value of vs is present, the classes the
\* values of vs belonged to (or their new singletons) are merged into one
\* class and no other pair of values changes connectivity; an empty vs changes
\* nothing and a one-element vs only inserts its value.
InsertSetGroups ==
    Returned("insert_set") =>
        LET vs == last.set
            pre == WithAll(prev.map, prev.data, vs)
            merged == UNION {ClassOf(pre.map, pre.data, v) : v \in Range(vs)} IN
        /\ DOMAIN map = DOMAIN prev.map \cup Range(vs)
        /\ \A p \in Values, q \in Values :
               SameClass(map, data, p, q) =
                   (SameClass(pre.map, pre.data, p, q) \/ (p \in merged /\ q \in merged))
        /\ vs = <<>> => (map = prev.map /\ data = prev.data)
        /\ Len(vs) = 1 => \A i \in DOMAIN prev.data : data[i].size = prev.data[i].size

\* insert_set of three distinct values has joined a new value and two values
\* that were present in different classes
InsertSetGroupsWitness ==
    /\ Returned("insert_set")
    /\ Cardinality(Range(last.set)) = 3
    /\ Cardinality(DOMAIN prev.map) = 2
    /\ \E p \in DOMAIN prev.map, q \in DOMAIN prev.map : ~SameClass(prev.map, prev.data, p, q)
    /\ \A p \in Values, q \in Values : SameClass(map, data, p, q)

\* the values a call inserts when they are absent
InsertedBy(call) ==
    IF call.op \in {"insert", "find_or_insert", "split", "split_into_set"} THEN {call.a}
    ELSE IF call.op \in {"union", "split_into"} THEN {call.a, call.b}
    ELSE IF call.op = "insert_set" THEN Range(call.set)
    ELSE {}

\* C12: find(value) returns None exactly when the value has never been
\* inserted and does not add it; a value inserted by any operation stays in the
\* table, so every later find returns an issued identifier.
FindNoneIffAbsent ==
    /\ Returned("find") =>
           /\ (last.rid = None) = (last.a \notin DOMAIN prev.map)
           /\ last.rid # None => InBounds(data, last.rid[1])
           /\ map = prev.map
    /\ (last.op # "-" /\ status = "ok") =>
           /\ DOMAIN prev.map \subseteq DOMAIN map
           /\ InsertedBy(last) \subseteq DOMAIN map

\* find of a present value has returned an identifier other than the value's own
FindNoneIffAbsentWitness ==
    /\ Returned("find")
    /\ last.a \in DOMAIN prev.map
    /\ last.rid # Some(map[last.a])

\* the values a call inserts, in the order in which it resolves them
InsertOrder(call) ==
    IF call.op \in {"union", "split_into"} THEN <<call.a, call.b>>
    ELSE IF call.op = "insert_set" THEN call.set
    ELSE IF call.op \in {"insert", "find_or_insert", "split", "split_into_set"} THEN <<call.a>>
    ELSE <<>>

\* first position of v in a sequence that contains it
FirstIdx(set, v) == CHOOSE n \in DOMAIN set : set[n] = v /\ \A k \in DOMAIN set : set[k] = v => n <= k

\* C13: the identifier of a value never changes after its first insertion,
\* whatever is called; identifiers are issued consecutively from 0 in order of
\* first insertion and no identifier is given to two values.
IdsStable ==
    /\ \A v \in DOMAIN map, w \in DOMAIN map : v # w => map[v] # map[w]
    /\ {map[v] : v \in DOMAIN map} = 0 .. Cardinality(DOMAIN map) - 1
    /\ DOMAIN data = 0 .. Cardinality(DOMAIN map) - 1
    /\ last.op # "-" =>
           /\ \A v \in DOMAIN prev.map : v \in DOMAIN map /\ map[v] = prev.map[v]
           /\ LET order == InsertOrder(last)
                  new == DOMAIN map \ DOMAIN prev.map IN
              \A p \in new, q \in new :
                  (p \in Range(order) /\ q \in Range(order) /\ FirstIdx(order, p) < FirstIdx(order, q))
                      => map[p] < map[q]

\* split_into has detached a present value from a class of two or more into
\* the class of a value it had to insert
IdsStableWitness ==
    /\ Returned("split_into")
    /\ last.a \in DOMAIN prev.map
    /\ last.b \notin DOMAIN prev.map
    /\ Cardinality(ClassOf(prev.map, prev.data, last.a)) >= 2
    /\ map[last.a] = prev.map[last.a]

\* the public methods whose arguments are values only
ValueOps == {"insert", "insert_set", "find_or_insert", "union", "split", "split_into",
             "connected", "find", "contains"}

\* C14: starting from an empty structure, every call of a method that takes
\* only values returns normally (no out-of-range node access, no failed unwrap
\* in the replacement-root scan, no underflow in insert, no endless loop), and
\* its value arguments, except those of find, connected and contains, are
\* present afterwards.
ValueOpsTotal ==
    last.op \in ValueOps =>
        /\ status = "ok"
        /\ InsertedBy(last) \subseteq DOMAIN map

\* split has run the replacement-root scan on a root that had no child left
\* (its size field was stale), so the scan could only find the root itself
ValueOpsTotalWitness ==
    /\ Returned("split")
    /\ last.a \in DOMAIN prev.map
    /\ LET id == prev.map[last.a] IN
       /\ prev.data[id].parent = id
       /\ prev.data[id].size # 1
       /\ \A j \in DOMAIN prev.data : j # id => prev.data[j].parent # id

\* the root that the parent pointers lead to from id, read without halving;
\* -1 when they lead into a cycle that has no root
RECURSIVE ChainEnd(_, _, _)
ChainEnd(d, id, fuel) ==
    IF d[id].parent = id THEN id
    ELSE IF fuel = 0 THEN -1
    ELSE ChainEnd(d, d[id].parent, fuel - 1)

\* the root of id in d
RootOf(d, id) == ChainEnd(d, id, Size(d))

\* C15: in every state between calls, every root node (parent equal to its
\* own identifier) has a size field equal to the number of identifiers whose
\* parent chain ends at that root.
RootSizesExact ==
    status = "ok" =>
        \A r \in DOMAIN data :
            data[r].parent = r =>
                data[r].size = Cardinality({i \in DOMAIN data : RootOf(data, i) = r})

\* the two roots the observed union or union_sets resolved and the nodes as
\* they were when union_inner was entered
ResolvedRoots ==
    IF last.op = "union"
    THEN LET f1 == FindOrInsert(prev.map, prev.data, last.a)
             f2 == FindOrInsert(f1.map, f1.data, last.b) IN
         [value |-> f1.ret, other |-> f2.ret, data |-> f2.data]
    ELSE LET c1 == CompressPath(prev.data, last.ia)
             c2 == CompressPath(c1.data, last.ib) IN
         [value |-> c1.id, other |-> c2.id, data |-> c2.data]

\* C16: when union or union_sets merges two distinct roots whose sizes differ,
\* the root with the strictly smaller size gets the larger root as its parent,
\* the larger root stays a root and its size becomes the sum of the two sizes.
UnionBySize ==
    (Returned("union") \/ Returned("union_sets")) =>
        LET r == ResolvedRoots
            vs == r.data[r.value].size
            os == r.data[r.other].size
            small == IF vs < os THEN r.value ELSE r.other
            large == IF vs < os THEN r.other ELSE r.value IN
        (r.value # r.other /\ vs # os) =>
            /\ data[small].parent = large
            /\ data[large].parent = large
            /\ data[large].size = vs + os

\* C17: in every state between calls, following parent pointers from any
\* identifier reaches a node that is its own parent; the parent graph has no
\* cycle other than the self-loops of roots.
ForestWellFormed ==
    status = "ok" => \A i \in DOMAIN data : RootOf(data, i) # -1

\* C18: in every reachable state the path-halving loop of compress_path ends
\* for every issued identifier, and the identifier it returns is a root (its
\* parent is itself).
CompressPathTerminates ==
    /\ status # "hang"
    /\ status = "ok" =>
           \A id \in DOMAIN data :
               LET c == CompressPath(data, id) IN
               /\ c.status = "ok"
               /\ c.data[c.id].parent = c.id

\* the parent pointers of some identifier lead into a cycle without a root,
\* and compress_path still ends on it
CompressPathTerminatesWitness ==
    /\ status = "ok"
    /\ \E id \in DOMAIN data :
           /\ RootOf(data, id) = -1
           /\ CompressPath(data, id).status = "ok"

\* the identifiers met when following the parent pointers from id
RECURSIVE PathFrom(_, _, _)
PathFrom(d, id, fuel) ==
    IF d[id].parent = id \/ fuel = 0 THEN {id}
    ELSE {id} \cup PathFrom(d, d[id].parent, fuel - 1)

\* C19: find(value) and connected(a, b) leave the value table, every size
\* field and the partition of the values unchanged, every identifier keeps
\* the root it had before the call, and after find the nodes on the traversed
\* path have their former grandparent as parent while all other parent
\* pointers are untouched.
FindReadOnly ==
    (Returned("find") \/ Returned("connected")) =>
        /\ map = prev.map
        /\ DOMAIN data = DOMAIN prev.data
        /\ \A i \in DOMAIN data : data[i].size = prev.data[i].size
        /\ SamePartition(map, data, prev.map, prev.data)
        /\ \A i \in DOMAIN data : RootOf(data, i) = RootOf(prev.data, i)
        /\ (last.op = "find" /\ last.a \in DOMAIN map) =>
               LET path == PathFrom(prev.data, map[last.a], Size(prev.data)) IN
               \A i \in DOMAIN data :
                   data[i].parent = IF i \in path
                                    THEN prev.data[prev.data[i].parent].parent
                                    ELSE prev.data[i].parent

\* C20: union_sets and split_into_set given an identifier the structure never
\* issued fail, and leave the value table, the parent pointers and the sizes
\* as they were before the call.
UnissuedIdRejected ==
    (\/ /\ last.op = "union_sets"
        /\ ~InBounds(prev.data, last.ia) \/ ~InBounds(prev.data, last.ib)
     \/ /\ last.op = "split_into_set"
        /\ ~InBounds(prev.data, last.ib)) =>
        /\ status = "panic"
        /\ map = prev.map
        /\ data = prev.data

====
